---- MODULE Spec2Model ----
(***************************************************************************)
(* Backtesting engine of tradingtester: BacktestEngine.__init__ and        *)
(* BacktestEngine.run (src/backend/backtester/engine.py) driving a         *)
(* Strategy (src/backend/code_generator/base_strategy.py).                 *)
(*                                                                         *)
(* Money is kept in thousandths of a currency unit (MilliPerUnit), so the  *)
(* commission rate is an integer number of thousandths and every product   *)
(* and quotient of run is exact for the leverages in Leverages.  A bar's   *)
(* timestamp is its 1-based position in the series (daily bars); the       *)
(* entry date None is 0.  The strategy is the abstract interface: each     *)
(* abstract method returns any value of its range, or raises, and          *)
(* check_exit_conditions may create the symbol's trailing-stop entry.      *)
(***************************************************************************)
EXTENDS Integers, Sequences, FiniteSets, TLC

\* ------------------------------------------------------------------ bounds
MaxBars == 2
\* Longest equity curve of the metrics specification.
MaxSamples == 4
\* Longest bar series of the run with BankerRatchetStrategy.
MaxRatchetBars == 3
\* Longest bar series of the run with MomentumBreakoutStrategy.
MaxMomentumBars == 3

\* --------------------------------------------------------------- constants
MilliPerUnit == 1000
DEFAULT_INITIAL_CAPITAL == 100000
DEFAULT_COMMISSION == 1

\* ------------------------------------------------------------ input ranges
Closes == {90, 100, 110}
Signals == {-1, 0, 1}
Leverages == {1, 2, 10}
Sizes == {0, 10, 1000}
\* Constructor arguments <<initial_capital, commission>>; <<>> is "not given".
EngineArgs == {<< <<>>, <<>> >>, << <<50000>>, <<0>> >>, << <<>>, <<2>> >>}

Bars == [close : Closes, signal : Signals]
BarSeries == UNION {[1..n -> Bars] : n \in 0..MaxBars}

NoTrades == <<>>
NoResult == <<>>
NoError == "none"
NoEntry == <<>>
StopEntry == <<"stop">>
NoPair == <<>>

VARIABLES
    initial_capital_arg, commission_arg,
    initial_capital, commission,
    data, pc, i,
    cash, portfolio_value,
    position_size, position_entry_price, position_entry_date,
    position_type, position_leverage,
    trades, equity_curve,
    positions, trailing_stops, calls, n_open_position, n_close_position,
    error, result, pair, highest_price_since_entry

engine == <<initial_capital_arg, commission_arg, initial_capital, commission>>
ledger == <<cash, position_size, position_entry_price, position_entry_date,
            position_type, position_leverage, trades>>
vars == <<initial_capital_arg, commission_arg, initial_capital, commission,
          data, pc, i, cash, portfolio_value,
          position_size, position_entry_price, position_entry_date,
          position_type, position_leverage,
          trades, equity_curve, positions, trailing_stops, calls,
          n_open_position, n_close_position, error, result, pair,
          highest_price_since_entry>>

\* ------------------------------------------------------- BacktestEngine.__init__
\* Python's  x or default : None and 0 both select the default.
OrDefault(arg, default) ==
    IF arg = <<>> \/ arg[1] = 0 THEN default ELSE arg[1]

\* ----------------------------------------------------------- run arithmetic
TradeValue(size, price) == size * price * MilliPerUnit

CommissionCost(size, price) == size * price * commission

\* Variant of LeveragedPnl that leaves the leverage out.
LeveragedPnl_Unleveraged(type, entry_price, price, size, leverage) ==
    IF type = "LONG"
    THEN (price - entry_price) * size * MilliPerUnit
    ELSE (entry_price - price) * size * MilliPerUnit

\* run, lines 154-157 and 163-164.
LeveragedPnl(type, entry_price, price, size, leverage) ==
    IF type = "LONG"
    THEN (price - entry_price) * size * MilliPerUnit * leverage
    ELSE (entry_price - price) * size * MilliPerUnit * leverage

MarginUsed(size, entry_price, leverage) ==
    TradeValue(size, entry_price) \div leverage

\* pnl / margin_used * 100 as the exact fraction num/den, written
\* pnl / (margin_used / 100) to stay within TLC's integers (margins are whole
\* multiples of 100 thousandths); 0 is 0/1.
PnlPct(pnl, margin_used) ==
    IF margin_used > 0 THEN [num |-> pnl, den |-> margin_used \div 100]
    ELSE [num |-> 0, den |-> 1]

\* Variant of ExitTradePnl that also subtracts the entry commission.
ExitTradePnl_BothCommissions(leveraged_pnl, commission_cost) ==
    leveraged_pnl - commission_cost
      - CommissionCost(position_size, position_entry_price)

\* run, lines 161, 167 and 169.
ExitTradePnl(leveraged_pnl, commission_cost) == leveraged_pnl - commission_cost

\* Variant of ExitCash that does not hand the margin back.
ExitCash_KeepsMargin(c, margin_used, leveraged_pnl, commission_cost) ==
    c + leveraged_pnl - commission_cost

\* run, line 167.
ExitCash(c, margin_used, leveraged_pnl, commission_cost) ==
    c + margin_used + leveraged_pnl - commission_cost

\* Variant of Trade that reads the position after the reset of lines 186-190.
Trade_AfterReset(exit_date, exit_price, pnl, margin_used, days_held) ==
    [entry_date |-> 0, exit_date |-> exit_date,
     type |-> "NONE", entry_price |-> 0,
     exit_price |-> exit_price, size |-> 0,
     leverage |-> 1, pnl |-> pnl,
     pnl_pct |-> PnlPct(pnl, margin_used), days_held |-> days_held]

\* run, lines 171-182 and 261-272.
Trade(exit_date, exit_price, pnl, margin_used, days_held) ==
    [entry_date |-> position_entry_date, exit_date |-> exit_date,
     type |-> position_type, entry_price |-> position_entry_price,
     exit_price |-> exit_price, size |-> position_size,
     leverage |-> position_leverage, pnl |-> pnl,
     pnl_pct |-> PnlPct(pnl, margin_used), days_held |-> days_held]

\* ------------------------------------------------------- strategy call log
\* calls holds the strategy methods the last step of run called, in order,
\* each with the bar and the position variables at the moment of the call;
\* n_open_position and n_close_position count the hook calls of the whole run.
\* ret is the value returned (a boolean as 1 or 0), NoRet for a hook that
\* returns nothing and Raised for a call that raises.
NoRet == -1
Raised == -2

Call(name, price, size, type, pv, ret) ==
    [name |-> name, bar |-> i, price |-> price, size |-> size,
     type |-> type, pv |-> pv, ret |-> ret,
     entry_date |-> position_entry_date, open |-> position_size # 0]

\* ---------------------------------------------------------------------- Init
Init ==
    /\ \E args \in EngineArgs :
          /\ initial_capital_arg = args[1]
          /\ commission_arg = args[2]
    /\ initial_capital =
           OrDefault(initial_capital_arg, DEFAULT_INITIAL_CAPITAL) * MilliPerUnit
    /\ commission = OrDefault(commission_arg, DEFAULT_COMMISSION)
    /\ data \in BarSeries
    /\ pc = "start"
    /\ i = 0
    /\ cash = 0
    /\ portfolio_value = 0
    /\ position_size = 0
    /\ position_entry_price = 0
    /\ position_entry_date = 0
    /\ position_type = "NONE"
    /\ position_leverage = 1
    /\ trades = NoTrades
    /\ equity_curve = <<>>
    /\ positions = NoEntry
    /\ trailing_stops = NoEntry
    /\ calls = <<>>
    /\ n_open_position = 0
    /\ n_close_position = 0
    /\ error = NoError
    /\ result = NoResult
    /\ pair = NoPair
    /\ highest_price_since_entry = NoEntry

\* Variant of IsEmpty that never finds the series empty.
IsEmpty_Never(d) == FALSE

\* run, line 111: data.empty.
IsEmpty(d) == d = <<>>

\* Variant of AfterRaise that carries on as if the call had returned.
AfterRaise_Continues(next_pc) == next_pc

\* run, lines 125-229: no strategy call is wrapped in a handler, so a call
\* that raises ends run there instead of going on to next_pc.
AfterRaise(next_pc) == "raised"

\* run, lines 111-129: the empty check, the tracking variables, then
\* calculate_indicators and generate_signals (either may raise).
Start ==
    /\ pc = "start"
    /\ IF IsEmpty(data)
       THEN /\ pc' = "raised"
            /\ error' = "ValueError"
            /\ UNCHANGED <<cash, calls>>
       ELSE /\ cash' = initial_capital
            /\ \/ /\ calls' = <<Call("calculate_indicators", 0, 0, "NONE", 0, NoRet),
                                Call("generate_signals", 0, 0, "NONE", 0, NoRet)>>
                  /\ pc' = "exit"
                  /\ UNCHANGED error
               \/ /\ calls' = <<Call("calculate_indicators", 0, 0, "NONE", 0, Raised)>>
                  /\ pc' = AfterRaise("exit")
                  /\ error' = "calculate_indicators"
               \/ /\ calls' = <<Call("calculate_indicators", 0, 0, "NONE", 0, NoRet),
                                Call("generate_signals", 0, 0, "NONE", 0, Raised)>>
                  /\ pc' = AfterRaise("exit")
                  /\ error' = "generate_signals"
    /\ i' = IF pc' = "exit" THEN 1 ELSE i
    /\ UNCHANGED <<engine, data, portfolio_value, position_size,
                   position_entry_price, position_entry_date, position_type,
                   position_leverage, trades, equity_curve, positions,
                   trailing_stops, n_open_position, n_close_position, result,
                   pair, highest_price_since_entry>>

\* Variant of ShouldCheckExit that does not look at the position.
ShouldCheckExit_Always(size, entry_date) == TRUE

\* run, line 137: a position is open and its entry date is set.
ShouldCheckExit(size, entry_date) == size # 0 /\ entry_date # 0

\* run, lines 133-190: the bar's price and portfolio value, then the exit check
\* and, when the strategy asks for it, the exit.
ExitStep ==
    /\ pc = "exit"
    /\ LET current_price == data[i].close
           days_held == i - position_entry_date
           trade_value == TradeValue(position_size, current_price)
           commission_cost == CommissionCost(position_size, current_price)
           leveraged_pnl == LeveragedPnl(position_type, position_entry_price,
                                         current_price, position_size,
                                         position_leverage)
           margin_used == MarginUsed(position_size, position_entry_price,
                                     position_leverage)
           pnl == ExitTradePnl(leveraged_pnl, commission_cost)
           check(ret) == Call("check_exit_conditions", current_price,
                              position_size, position_type, 0, ret)
           close(ret) == Call("close_position", current_price, position_size,
                              position_type, 0, ret)
       IN  /\ portfolio_value' =
                  cash + (IF position_size # 0 THEN trade_value ELSE 0)
           /\ IF ShouldCheckExit(position_size, position_entry_date)
              THEN \/ /\ calls' = <<check(Raised)>>
                      /\ pc' = AfterRaise("entry")
                      /\ error' = "check_exit_conditions"
                      /\ trailing_stops' \in {trailing_stops, StopEntry}
                      /\ UNCHANGED <<ledger, positions, n_close_position>>
                   \/ /\ calls' = <<check(0)>>
                      /\ pc' = "entry"
                      /\ trailing_stops' \in {trailing_stops, StopEntry}
                      /\ UNCHANGED <<ledger, positions, n_close_position, error>>
                   \/ /\ cash' = ExitCash(cash, margin_used, leveraged_pnl,
                                          commission_cost)
                      /\ trades' = Append(trades,
                             Trade(i, current_price, pnl, margin_used, days_held))
                      /\ n_close_position' = n_close_position + 1
                      /\ \/ /\ pc' = AfterRaise("entry")
                            /\ error' = "close_position"
                            /\ calls' = <<check(1), close(Raised)>>
                            /\ trailing_stops' \in {trailing_stops, StopEntry}
                            /\ UNCHANGED <<position_size, position_entry_price,
                                           position_entry_date, position_type,
                                           position_leverage, positions>>
                         \/ /\ pc' = "entry"
                            /\ calls' = <<check(1), close(NoRet)>>
                            /\ positions' = NoEntry
                            /\ trailing_stops' = NoEntry
                            /\ UNCHANGED error
                            /\ position_size' = 0
                            /\ position_entry_price' = 0
                            /\ position_entry_date' = 0
                            /\ position_type' = "NONE"
                            /\ position_leverage' = 1
              ELSE /\ pc' = "entry"
                   /\ calls' = <<>>
                   /\ UNCHANGED <<ledger, positions, trailing_stops,
                                  n_close_position, error>>
    /\ UNCHANGED <<engine, data, i, equity_curve, n_open_position, result,
                   pair, highest_price_since_entry>>

\* Variant of CanEnter that omits the flat test.
CanEnter_IgnoresPosition(size, signal) == signal # 0

\* Variant of CanEnter that omits the signal test.
CanEnter_IgnoresSignal(size, signal) == size = 0

\* run, line 193: flat and the bar carries a non-zero signal.
CanEnter(size, signal) == size = 0 /\ signal # 0

\* Variant of SizeOk that lets a size of 0 through.
SizeOk_AllowsZero(size) == size >= 0

\* run, line 207.
SizeOk(size) == size > 0

\* Variant of EntryAccepted that compares cash with the margin alone.
EntryAccepted_MarginOnly(c, margin_required, commission_cost) ==
    c >= margin_required

\* run, line 214.
EntryAccepted(c, margin_required, commission_cost) ==
    c >= margin_required + commission_cost

\* run, line 210.
MarginRequired(trade_value, leverage) == trade_value \div leverage

\* run, line 216.
EntryCash(c, margin_required, commission_cost) ==
    c - (margin_required + commission_cost)

\* run, line 220.
EntrySide(signal) == IF signal > 0 THEN "LONG" ELSE "SHORT"

\* Variant of EntryLeverage that keeps the default leverage of line 120.
EntryLeverage_Default(leverage) == 1

\* run, line 221.
EntryLeverage(leverage) == leverage

\* run, lines 192-229: leverage and size from the strategy, then the entry
\* when the size is positive and cash covers margin plus commission.
EntryStep ==
    /\ pc = "entry"
    /\ LET current_price == data[i].close
           signal == data[i].signal
           lev(ret) == Call("get_leverage", current_price, 0, "NONE", 0, ret)
           siz(ret) == Call("calculate_position_size", current_price, 0, "NONE",
                            portfolio_value, ret)
       IN  IF CanEnter(position_size, signal)
           THEN \/ /\ calls' = <<lev(Raised)>>
                   /\ pc' = AfterRaise("equity")
                   /\ error' = "get_leverage"
                   /\ UNCHANGED <<ledger, positions, n_open_position>>
                \/ /\ \E leverage \in Leverages :
                        calls' = <<lev(leverage), siz(Raised)>>
                   /\ pc' = AfterRaise("equity")
                   /\ error' = "calculate_position_size"
                   /\ UNCHANGED <<ledger, positions, n_open_position>>
                \/ \E leverage \in Leverages, size \in Sizes :
                     LET trade_value == TradeValue(size, current_price)
                         margin_required == MarginRequired(trade_value, leverage)
                         commission_cost == CommissionCost(size, current_price)
                         side == EntrySide(signal)
                         open(ret) == Call("open_position", current_price, size,
                                           side, 0, ret)
                     IN  IF SizeOk(size)
                            /\ EntryAccepted(cash, margin_required, commission_cost)
                         THEN /\ cash' = EntryCash(cash, margin_required,
                                                   commission_cost)
                              /\ position_size' = size
                              /\ position_entry_price' = current_price
                              /\ position_entry_date' = i
                              /\ position_type' = side
                              /\ position_leverage' = EntryLeverage(leverage)
                              /\ n_open_position' = n_open_position + 1
                              /\ UNCHANGED trades
                              /\ \/ /\ pc' = AfterRaise("equity")
                                    /\ error' = "open_position"
                                    /\ calls' = <<lev(leverage), siz(size),
                                                  open(Raised)>>
                                    /\ UNCHANGED positions
                                 \/ /\ pc' = "equity"
                                    /\ UNCHANGED error
                                    /\ calls' = <<lev(leverage), siz(size),
                                                  open(NoRet)>>
                                    /\ positions' =
                                         [entry_price |-> current_price,
                                          size |-> size, entry_date |-> i,
                                          type |-> side]
                         ELSE /\ calls' = <<lev(leverage), siz(size)>>
                              /\ pc' = "equity"
                              /\ UNCHANGED <<ledger, positions, n_open_position,
                                             error>>
           ELSE /\ pc' = "equity"
                /\ calls' = <<>>
                /\ UNCHANGED <<ledger, positions, n_open_position, error>>
    /\ UNCHANGED <<engine, data, i, portfolio_value, equity_curve,
                   trailing_stops, n_close_position, result, pair,
                   highest_price_since_entry>>

\* Variant of EquityValue that marks the position at its notional value, as
\* line 134 does.
EquityValue_Notional(c, size, entry_price, leverage, type, price) ==
    c + (IF size # 0 THEN TradeValue(size, price) ELSE 0)

\* run, lines 232-240: the bar's portfolio value.
EquityValue(c, size, entry_price, leverage, type, price) ==
    IF size # 0
    THEN c + MarginUsed(size, entry_price, leverage)
           + LeveragedPnl(type, entry_price, price, size, leverage)
    ELSE c

\* Variant of EquityAppend that samples only while a position is open.
EquityAppend_OnlyWhenOpen(curve, value) ==
    IF position_size # 0 THEN Append(curve, value) ELSE curve

\* run, line 241.
EquityAppend(curve, value) == Append(curve, value)

\* run, lines 231-241 and the loop's advance (line 132).
EquityStep ==
    /\ pc = "equity"
    /\ portfolio_value' = EquityValue(cash, position_size, position_entry_price,
                                      position_leverage, position_type,
                                      data[i].close)
    /\ equity_curve' = EquityAppend(equity_curve, portfolio_value')
    /\ IF i < Len(data)
       THEN i' = i + 1 /\ pc' = "exit"
       ELSE i' = i /\ pc' = "close"
    /\ calls' = <<>>
    /\ UNCHANGED <<engine, data, ledger, positions, trailing_stops,
                   n_open_position, n_close_position, error, result, pair,
                   highest_price_since_entry>>

\* Variant of ForcedCloseCash that does not hand the margin back.
ForcedCloseCash_KeepsMargin(c, margin_used, leveraged_pnl) == c + leveraged_pnl

\* Variant of ForcedCloseCash that charges an exit commission.
ForcedCloseCash_ChargesCommission(c, margin_used, leveraged_pnl) ==
    c + margin_used + leveraged_pnl
      - CommissionCost(position_size, data[Len(data)].close)

\* run, lines 255-256.
ForcedCloseCash(c, margin_used, leveraged_pnl) == c + margin_used + leveraged_pnl

\* Variant of ForcedClosePnl that subtracts an exit commission.
ForcedClosePnl_LessCommission(leveraged_pnl) ==
    leveraged_pnl - CommissionCost(position_size, data[Len(data)].close)

\* run, line 257.
ForcedClosePnl(leveraged_pnl) == leveraged_pnl

\* run, lines 243-272: a position left open is closed at the last close.  The
\* position variables are not reset and no strategy hook is called.
ForcedClose ==
    /\ pc = "close"
    /\ LET final_price == data[Len(data)].close
           final_date == Len(data)
           leveraged_pnl == LeveragedPnl(position_type, position_entry_price,
                                         final_price, position_size,
                                         position_leverage)
           margin_used == MarginUsed(position_size, position_entry_price,
                                     position_leverage)
           pnl == ForcedClosePnl(leveraged_pnl)
           days_held == IF position_entry_date # 0
                        THEN final_date - position_entry_date ELSE 0
       IN  IF position_size # 0
           THEN /\ cash' = ForcedCloseCash(cash, margin_used, leveraged_pnl)
                /\ trades' = Append(trades,
                       Trade(final_date, final_price, pnl, margin_used, days_held))
           ELSE UNCHANGED <<cash, trades>>
    /\ pc' = "metrics"
    /\ calls' = <<>>
    /\ UNCHANGED <<engine, data, i, portfolio_value, position_size,
                   position_entry_price, position_entry_date, position_type,
                   position_leverage, equity_curve, positions, trailing_stops,
                   n_open_position, n_close_position, error, result, pair,
                   highest_price_since_entry>>

\* Variant of Winning that counts a trade with pnl 0 as a win.
Winning_NonNegative(ts) == {k \in 1..Len(ts) : ts[k].pnl >= 0}

\* run, lines 279-280.
Winning(ts) == {k \in 1..Len(ts) : ts[k].pnl > 0}
Losing(ts) == {k \in 1..Len(ts) : ts[k].pnl <= 0}

\* run, line 283: len(winning_trades) / num_trades as the fraction num/den,
\* 0 (0/1) without trades.
WinRate(n_winning, num_trades) ==
    IF num_trades > 0 THEN [num |-> n_winning, den |-> num_trades]
    ELSE [num |-> 0, den |-> 1]

Max(S) == CHOOSE x \in S : \A y \in S : y <= x
Min(S) == CHOOSE x \in S : \A y \in S : x <= y

\* run, line 289: equity_series.expanding().max() at sample k.
RunningMax(curve, k) == Max({curve[j] : j \in 1..k})

\* run, lines 290-291: drawdown.min().
MaxDrawdown(curve) ==
    Min({curve[k] - RunningMax(curve, k) : k \in 1..Len(curve)})

\* run, line 292: max_drawdown / running_max.max() * 100, kept as the ratio
\* num/den of which the percentage is the hundredfold; 0 (0/1) when the peak
\* is not positive.
MaxDrawdownPct(max_drawdown, peak) ==
    IF peak > 0 THEN [num |-> max_drawdown, den |-> peak]
    ELSE [num |-> 0, den |-> 1]

\* Greatest common divisor of two naturals, not both 0.
RECURSIVE GCD(_, _)
GCD(a, b) == IF b = 0 THEN a ELSE GCD(b, a % b)

Abs(x) == IF x < 0 THEN -x ELSE x

\* run, line 295: equity_series.pct_change(), the observation of sample k
\* (k >= 2): curve[k] / curve[k-1] - 1 as a fraction in lowest terms with a
\* positive denominator; a division by 0 gives an infinity, 0/0 gives NaN.
PctChange(curve, k) ==
    LET prev == curve[k - 1]
        diff == curve[k] - prev
        g == GCD(Abs(diff), Abs(prev))
    IN  IF prev = 0
        THEN IF curve[k] > 0 THEN [kind |-> "inf", num |-> 1, den |-> 0]
             ELSE IF curve[k] < 0 THEN [kind |-> "-inf", num |-> -1, den |-> 0]
             ELSE [kind |-> "nan", num |-> 0, den |-> 0]
        ELSE [kind |-> "finite",
              num |-> IF prev > 0 THEN diff \div g ELSE (-diff) \div g,
              den |-> Abs(prev) \div g]

\* run, line 295: .dropna() drops the first observation (no predecessor) and
\* every NaN; infinities stay.
Returns(curve) ==
    SelectSeq([k \in 1..(Len(curve) - 1) |-> PctChange(curve, k + 1)],
              LAMBDA r : r.kind # "nan")

\* run, line 297: returns.mean().
Mean(returns) ==
    LET kinds == {returns[k].kind : k \in 1..Len(returns)}
    IN  IF returns = <<>> THEN "nan"
        ELSE IF {"inf", "-inf"} \subseteq kinds THEN "nan"
        ELSE IF "inf" \in kinds THEN "inf"
        ELSE IF "-inf" \in kinds THEN "-inf"
        ELSE "finite"

\* run, lines 297-298: returns.std(), the sample standard deviation (ddof 1):
\* NaN for fewer than 2 observations and when an observation is infinite,
\* 0 when all observations are equal, positive otherwise.
Std(returns) ==
    IF Len(returns) < 2 THEN "nan"
    ELSE IF \E k \in 1..Len(returns) : returns[k].kind # "finite" THEN "nan"
    ELSE IF \A k \in 1..Len(returns) : returns[k] = returns[1] THEN "zero"
    ELSE "positive"

\* run, line 297: returns.mean() / returns.std() in float arithmetic, where a
\* division by 0 is an infinity (NaN for 0/0) and NaN is contagious; the
\* finite quotient itself (times sqrt(252)) is kept as "ratio".
Quotient(mean, std, returns) ==
    IF mean = "nan" \/ std = "nan" THEN "nan"
    ELSE IF std = "zero"
         THEN IF returns[1].num = 0 THEN "nan"
              ELSE IF returns[1].num > 0 THEN "inf" ELSE "-inf"
    ELSE "ratio"

\* Variant of StdAboveZero that only asks for a standard deviation that is
\* not negative.
StdAboveZero_OrZero(std) == std \in {"zero", "positive"}

\* run, line 298: returns.std() > 0 (false for NaN).
StdAboveZero(std) == std = "positive"

\* run, lines 295-300: sharpe_ratio, "0.0" or the kind of the quotient.
SharpeRatio(curve) ==
    LET returns == Returns(curve)
    IN  IF Len(returns) > 0 /\ StdAboveZero(Std(returns))
        THEN Quotient(Mean(returns), Std(returns), returns)
        ELSE "0.0"

\* run, lines 274-322: the metrics and the BacktestResult.
Metrics ==
    /\ pc = "metrics"
    /\ result' = [initial_capital |-> initial_capital,
                  final_capital |-> cash,
                  total_return |-> cash - initial_capital,
                  num_trades |-> Len(trades),
                  winning_trades |-> Cardinality(Winning(trades)),
                  losing_trades |-> Cardinality(Losing(trades)),
                  win_rate |-> WinRate(Cardinality(Winning(trades)),
                                       Len(trades)),
                  max_drawdown |-> MaxDrawdown(equity_curve),
                  max_drawdown_pct |->
                      MaxDrawdownPct(MaxDrawdown(equity_curve),
                                     RunningMax(equity_curve,
                                                Len(equity_curve))),
                  sharpe_ratio |-> SharpeRatio(equity_curve),
                  trades |-> trades,
                  equity_curve |-> equity_curve]
    /\ pc' = "done"
    /\ calls' = <<>>
    /\ UNCHANGED <<engine, data, i, portfolio_value, ledger, equity_curve,
                   positions, trailing_stops, n_open_position,
                   n_close_position, error, pair, highest_price_since_entry>>

Next ==
    \/ Start
    \/ ExitStep
    \/ EntryStep
    \/ EquityStep
    \/ ForcedClose
    \/ Metrics

Spec == Init /\ [][Next]_vars

\* ------------------------------------------------- one position, two leverages
\* The entry and exit arithmetic of run applied to one position (side, size,
\* entry and exit price) at a leverage and at twice that leverage, under the
\* commission rate of an engine built as in Init.
run_vars == <<initial_capital_arg, commission_arg, initial_capital, commission,
              data, pc, i, cash, portfolio_value,
              position_size, position_entry_price, position_entry_date,
              position_type, position_leverage,
              trades, equity_curve, positions, trailing_stops, calls,
              n_open_position, n_close_position, error, result,
              highest_price_since_entry>>

PairInit ==
    /\ \E args \in EngineArgs :
          /\ initial_capital_arg = args[1]
          /\ commission_arg = args[2]
    /\ initial_capital =
           OrDefault(initial_capital_arg, DEFAULT_INITIAL_CAPITAL) * MilliPerUnit
    /\ commission = OrDefault(commission_arg, DEFAULT_COMMISSION)
    /\ data = <<>>
    /\ pc = "pair"
    /\ i = 0
    /\ cash = 0
    /\ portfolio_value = 0
    /\ position_size = 0
    /\ position_entry_price = 0
    /\ position_entry_date = 0
    /\ position_type = "NONE"
    /\ position_leverage = 1
    /\ trades = NoTrades
    /\ equity_curve = <<>>
    /\ positions = NoEntry
    /\ trailing_stops = NoEntry
    /\ calls = <<>>
    /\ n_open_position = 0
    /\ n_close_position = 0
    /\ error = NoError
    /\ result = NoResult
    /\ highest_price_since_entry = NoEntry
    /\ pair \in [stage : {"flat"}, type : {"LONG", "SHORT"},
                 size : Sizes \ {0}, entry_price : Closes,
                 leverage : Leverages]

\* run, lines 208-211, at leverage lev.
PairEntry(lev) ==
    LET trade_value == TradeValue(pair.size, pair.entry_price)
    IN  [leverage |-> lev,
         margin_required |-> MarginRequired(trade_value, lev),
         entry_commission |-> CommissionCost(pair.size, pair.entry_price)]

\* run, lines 151-167, at leverage lev and exit price price.
PairClose(lev, price) ==
    [leveraged_pnl |-> LeveragedPnl(pair.type, pair.entry_price, price,
                                    pair.size, lev),
     margin_used |-> MarginUsed(pair.size, pair.entry_price, lev),
     exit_commission |-> CommissionCost(pair.size, price)]

PairEnter ==
    /\ pair.stage = "flat"
    /\ pair' = [stage |-> "open", type |-> pair.type, size |-> pair.size,
                entry_price |-> pair.entry_price, leverage |-> pair.leverage,
                first |-> PairEntry(pair.leverage),
                second |-> PairEntry(2 * pair.leverage)]
    /\ UNCHANGED run_vars

PairExit ==
    /\ pair.stage = "open"
    /\ \E price \in Closes :
          pair' = [stage |-> "closed", type |-> pair.type, size |-> pair.size,
                   entry_price |-> pair.entry_price, exit_price |-> price,
                   leverage |-> pair.leverage,
                   first |-> pair.first, second |-> pair.second,
                   first_close |-> PairClose(pair.leverage, price),
                   second_close |-> PairClose(2 * pair.leverage, price)]
    /\ UNCHANGED run_vars

PairNext ==
    \/ PairEnter
    \/ PairExit

PairSpec == PairInit /\ [][PairNext]_vars

\* --------------------------------------------------- metrics of an equity curve
\* The Sharpe computation of run (lines 294-300) applied to equity curves of
\* up to MaxSamples samples.  The first sample of a run is positive (cash
\* after at most one accepted entry, plus its margin); later samples may be 0
\* or negative when a leveraged loss exceeds the margin.
EquitySamples == {-90000, 0, 100000000, 110000000, 121000000}

\* The state of run before its first bar, at the step stage.
Idle(stage) ==
    /\ initial_capital_arg = <<>>
    /\ commission_arg = <<>>
    /\ initial_capital = DEFAULT_INITIAL_CAPITAL * MilliPerUnit
    /\ commission = DEFAULT_COMMISSION
    /\ pc = stage
    /\ i = 0
    /\ cash = 0
    /\ portfolio_value = 0
    /\ position_size = 0
    /\ position_entry_price = 0
    /\ position_entry_date = 0
    /\ position_type = "NONE"
    /\ position_leverage = 1
    /\ trades = NoTrades
    /\ positions = NoEntry
    /\ trailing_stops = NoEntry
    /\ calls = <<>>
    /\ n_open_position = 0
    /\ n_close_position = 0
    /\ error = NoError
    /\ result = NoResult
    /\ pair = NoPair
    /\ highest_price_since_entry = NoEntry

SharpeInit ==
    /\ Idle("sharpe")
    /\ data = <<>>
    /\ equity_curve \in UNION {[1..n -> EquitySamples] : n \in 1..MaxSamples}
    /\ equity_curve[1] > 0

SharpeCompute ==
    /\ pc = "sharpe"
    /\ result' = [returns |-> Returns(equity_curve),
                  sharpe_ratio |-> SharpeRatio(equity_curve),
                  equity_curve |-> equity_curve]
    /\ pc' = "sharpe_done"
    /\ UNCHANGED <<engine, data, i, portfolio_value, ledger, equity_curve,
                   positions, trailing_stops, calls, n_open_position,
                   n_close_position, error, pair, highest_price_since_entry>>

SharpeNext == SharpeCompute

SharpeSpec == SharpeInit /\ [][SharpeNext]_vars

\* ------------------------------------------------ run with BankerRatchetStrategy
\* BacktestEngine.run driving BankerRatchetStrategy
\* (src/generated/banker_ratchet.py): the exit and entry steps of run with the
\* strategy's get_leverage, calculate_position_size and check_exit_conditions
\* in place of the abstract ones.  The signal column and the ATR are data:
\* any signal, and any of the three leverage bands.  Stop prices are kept in
\* hundredths of a price unit (PriceScale) so that the 1% and 2% distances are
\* exact; a margin at leverage 3 is cut to whole thousandths, at entry and at
\* exit alike.
PriceScale == 100
initial_stop_pct == 2
breakeven_activation_pct == 2
trailing_distance_pct == 1

RatchetCloses == {98, 100, 102, 105}
RatchetBars == [close : RatchetCloses, signal : Signals]
RatchetSeries == UNION {[1..n -> RatchetBars] : n \in 0..MaxRatchetBars}

\* BankerRatchetStrategy.get_leverage, lines 254-273: 3.0, 4.0 or
\* base_leverage (5.0) by the ATR band.
RatchetLeverages == {3, 4, 5}

\* BankerRatchetStrategy.calculate_position_size, lines 283-302; price in
\* price units, portfolio_value in thousandths.
RatchetPositionSize(price, pv, leverage) ==
    IF price <= 0 \/ pv <= 0 THEN 0
    ELSE LET contracts == (pv * initial_stop_pct)
                            \div (price * initial_stop_pct * MilliPerUnit)
             max_contracts == (pv * leverage) \div (2 * price * MilliPerUnit)
         IN  Min({contracts, max_contracts, Max({1, contracts})})

\* Strategy.init_trailing_stop, lines 195-210.
InitTrailingStop(entry_price, pct, type) ==
    IF type = "LONG"
    THEN [stop_price |-> entry_price * (PriceScale - pct),
          highest_price |-> entry_price,
          activated |-> FALSE, initial_stop_pct |-> pct]
    ELSE [stop_price |-> entry_price * (PriceScale + pct),
          lowest_price |-> entry_price,
          activated |-> FALSE, initial_stop_pct |-> pct]

\* check_exit_conditions, lines 324-330: profit_pct >= breakeven_activation_pct.
ProfitReached(current_price, entry_price, type) ==
    IF type = "LONG"
    THEN (current_price - entry_price) * 100 >= breakeven_activation_pct * entry_price
    ELSE (entry_price - current_price) * 100 >= breakeven_activation_pct * entry_price

\* Variant of RatchetPeak that takes the latest price as the peak or trough.
RatchetPeak_Latest(stop_info, current_price, type) ==
    IF type = "LONG"
    THEN [stop_info EXCEPT !.highest_price = current_price]
    ELSE [stop_info EXCEPT !.lowest_price = current_price]

\* check_exit_conditions, lines 326-333: the highest (LONG) or lowest (SHORT)
\* price seen.
RatchetPeak(stop_info, current_price, type) ==
    IF type = "LONG"
    THEN IF current_price > stop_info.highest_price
         THEN [stop_info EXCEPT !.highest_price = current_price]
         ELSE stop_info
    ELSE IF current_price < stop_info.lowest_price
         THEN [stop_info EXCEPT !.lowest_price = current_price]
         ELSE stop_info

\* check_exit_conditions, lines 337-339: activation moves the stop to the
\* entry price.
RatchetActivate(stop_info, current_price, entry_price, type) ==
    IF ProfitReached(current_price, entry_price, type) /\ ~stop_info.activated
    THEN [stop_info EXCEPT !.activated = TRUE,
                           !.stop_price = entry_price * PriceScale]
    ELSE stop_info

\* check_exit_conditions, lines 342-348: once activated the stop is 1% behind
\* the peak (LONG) or 1% above the trough (SHORT).
RatchetTrail(stop_info, type) ==
    IF stop_info.activated
    THEN IF type = "LONG"
         THEN [stop_info EXCEPT !.stop_price =
                  stop_info.highest_price * (PriceScale - trailing_distance_pct)]
         ELSE [stop_info EXCEPT !.stop_price =
                  stop_info.lowest_price * (PriceScale + trailing_distance_pct)]
    ELSE stop_info

\* check_exit_conditions, lines 350-360.
StopHit(stop_info, current_price, type) ==
    IF type = "LONG"
    THEN current_price * PriceScale <= stop_info.stop_price
    ELSE current_price * PriceScale >= stop_info.stop_price

\* BankerRatchetStrategy.check_exit_conditions, lines 314-360: the return
\* value and the symbol's trailing-stop entry after the call.
RatchetCheckExit(stops, current_price, entry_price, type) ==
    IF entry_price <= 0 \/ current_price <= 0
    THEN [ret |-> TRUE, trailing_stops |-> stops, activated_now |-> FALSE]
    ELSE LET initial == IF stops = NoEntry
                        THEN InitTrailingStop(entry_price, initial_stop_pct, type)
                        ELSE stops
             peaked == RatchetPeak(initial, current_price, type)
             activated == RatchetActivate(peaked, current_price, entry_price,
                                          type)
             trailed == RatchetTrail(activated, type)
         IN  [ret |-> StopHit(trailed, current_price, type),
              trailing_stops |-> trailed,
              activated_now |-> trailed.activated /\ ~initial.activated]

RatchetInit ==
    /\ Idle("start")
    /\ data \in RatchetSeries
    /\ equity_curve = <<>>

\* run, lines 133-190, with BankerRatchetStrategy.check_exit_conditions and
\* Strategy.close_position.
RatchetExitStep ==
    /\ pc = "exit"
    /\ LET current_price == data[i].close
           days_held == i - position_entry_date
           trade_value == TradeValue(position_size, current_price)
           commission_cost == CommissionCost(position_size, current_price)
           leveraged_pnl == LeveragedPnl(position_type, position_entry_price,
                                         current_price, position_size,
                                         position_leverage)
           margin_used == MarginUsed(position_size, position_entry_price,
                                     position_leverage)
           pnl == ExitTradePnl(leveraged_pnl, commission_cost)
           exit == RatchetCheckExit(trailing_stops, current_price,
                                    position_entry_price, position_type)
           check == Call("check_exit_conditions", current_price,
                         position_size, position_type, 0,
                         IF exit.ret THEN 1 ELSE 0)
                    @@ [entry_price |-> position_entry_price,
                        stop_info |-> exit.trailing_stops,
                        activated_now |-> exit.activated_now]
           close == Call("close_position", current_price, position_size,
                         position_type, 0, NoRet)
       IN  /\ portfolio_value' =
                  cash + (IF position_size # 0 THEN trade_value ELSE 0)
           /\ IF ShouldCheckExit(position_size, position_entry_date)
              THEN IF exit.ret
                   THEN /\ cash' = ExitCash(cash, margin_used, leveraged_pnl,
                                            commission_cost)
                        /\ trades' = Append(trades,
                               Trade(i, current_price, pnl, margin_used,
                                     days_held))
                        /\ n_close_position' = n_close_position + 1
                        /\ calls' = <<check, close>>
                        /\ positions' = NoEntry
                        /\ trailing_stops' = NoEntry
                        /\ position_size' = 0
                        /\ position_entry_price' = 0
                        /\ position_entry_date' = 0
                        /\ position_type' = "NONE"
                        /\ position_leverage' = 1
                   ELSE /\ calls' = <<check>>
                        /\ trailing_stops' = exit.trailing_stops
                        /\ UNCHANGED <<ledger, positions, n_close_position>>
              ELSE /\ calls' = <<>>
                   /\ UNCHANGED <<ledger, positions, trailing_stops,
                                  n_close_position>>
    /\ pc' = "entry"
    /\ UNCHANGED <<engine, data, i, equity_curve, n_open_position, error,
                   result, pair, highest_price_since_entry>>

\* run, lines 193-229, with BankerRatchetStrategy.get_leverage and
\* calculate_position_size (which asks get_leverage again, for the same data)
\* and Strategy.open_position.
RatchetEntryStep ==
    /\ pc = "entry"
    /\ LET current_price == data[i].close
           signal == data[i].signal
       IN  IF CanEnter(position_size, signal)
           THEN \E leverage \in RatchetLeverages :
                  LET size == RatchetPositionSize(current_price, portfolio_value,
                                                  leverage)
                      trade_value == TradeValue(size, current_price)
                      margin_required == MarginRequired(trade_value, leverage)
                      commission_cost == CommissionCost(size, current_price)
                      side == EntrySide(signal)
                      lev == Call("get_leverage", current_price, 0, "NONE", 0,
                                  leverage)
                      siz == Call("calculate_position_size", current_price, 0,
                                  "NONE", portfolio_value, size)
                      open == Call("open_position", current_price, size, side,
                                   0, NoRet)
                  IN  IF SizeOk(size)
                         /\ EntryAccepted(cash, margin_required, commission_cost)
                      THEN /\ cash' = EntryCash(cash, margin_required,
                                                commission_cost)
                           /\ position_size' = size
                           /\ position_entry_price' = current_price
                           /\ position_entry_date' = i
                           /\ position_type' = side
                           /\ position_leverage' = EntryLeverage(leverage)
                           /\ n_open_position' = n_open_position + 1
                           /\ calls' = <<lev, siz, open>>
                           /\ positions' = [entry_price |-> current_price,
                                            size |-> size, entry_date |-> i,
                                            type |-> side]
                           /\ UNCHANGED trades
                      ELSE /\ calls' = <<lev, siz>>
                           /\ UNCHANGED <<ledger, positions, n_open_position>>
           ELSE /\ calls' = <<>>
                /\ UNCHANGED <<ledger, positions, n_open_position>>
    /\ pc' = "equity"
    /\ UNCHANGED <<engine, data, i, portfolio_value, equity_curve,
                   trailing_stops, n_close_position, error, result, pair,
                   highest_price_since_entry>>

RatchetNext ==
    \/ Start
    \/ RatchetExitStep
    \/ RatchetEntryStep
    \/ EquityStep
    \/ ForcedClose
    \/ Metrics

RatchetSpec == RatchetInit /\ [][RatchetNext]_vars

\* -------------------------------------------- run with MomentumBreakoutStrategy
\* BacktestEngine.run driving MomentumBreakoutStrategy
\* (src/generated/momentum_breakout.py): the exit and entry steps of run with
\* the strategy's calculate_position_size and check_exit_conditions and the
\* base class's get_leverage.  The signal column (0 or 1), the bar's ema_10
\* and its atr are data.  Stop prices are in hundredths of a price unit.
NaN == -1
profit_target_pct == 15
momentum_initial_stop_pct == 5
max_hold_days == 30
risk_amount == 1000
min_position_value == 2000
max_position_value == 15000

MomentumCloses == {98, 100, 106, 116}
MomentumBars == [close : MomentumCloses, signal : {0, 1}]
MomentumSeries == UNION {[1..n -> MomentumBars] : n \in 0..MaxMomentumBars}
Ema10s == {NaN, 90, 103}
Atrs == {NaN, 2}

\* MomentumBreakoutStrategy.calculate_position_size, lines 132-150 (shares;
\* price and atr in price units, position values in currency units).
MomentumPositionSize(price, atr) ==
    IF price <= 0 THEN 0
    ELSE IF atr = NaN \/ atr <= 0 THEN min_position_value \div price
    ELSE LET shares == risk_amount \div (2 * atr)
             position_value == shares * price
             constrained ==
                 IF position_value < min_position_value
                 THEN min_position_value \div price
                 ELSE IF position_value > max_position_value
                      THEN max_position_value \div price
                      ELSE shares
         IN  Max({constrained, 1})

\* check_exit_conditions, lines 197-208: the stop price for the profit of this
\* check, in hundredths.
MomentumStopPrice(current_price, entry_price, highest_price, atr) ==
    LET profit == (current_price - entry_price) * 100
    IN  IF profit < 5 * entry_price
        THEN entry_price * (PriceScale - momentum_initial_stop_pct)
        ELSE IF profit < 10 * entry_price
             THEN entry_price * PriceScale
             ELSE IF atr # NaN
                  THEN (highest_price - 2 * atr) * PriceScale
                  ELSE highest_price * 95

\* MomentumBreakoutStrategy.check_exit_conditions, lines 162-214, for a
\* non-empty frame: the return value, the symbol's highest_price_since_entry
\* after the call (<<price>>, or NoEntry after _cleanup_tracking), and the
\* highest price and stop price the call worked with.
MomentumCheckExit(highest, current_price, entry_price, days_held, ema_10, atr, type) ==
    IF type # "LONG"
    THEN [ret |-> FALSE, highest_price_since_entry |-> highest,
          highest_price |-> NaN, stop_price |-> NaN]
    ELSE LET highest_price ==
                 Max({IF highest = NoEntry THEN entry_price ELSE highest[1],
                      current_price})
             stop_price == MomentumStopPrice(current_price, entry_price,
                                             highest_price, atr)
             exit ==
                 \/ (current_price - entry_price) * 100
                        >= profit_target_pct * entry_price
                 \/ days_held > max_hold_days
                 \/ ema_10 # NaN /\ current_price < ema_10
                 \/ current_price * PriceScale < stop_price
         IN  [ret |-> exit,
              highest_price_since_entry |->
                  IF exit THEN NoEntry ELSE <<highest_price>>,
              highest_price |-> highest_price,
              stop_price |-> stop_price]

MomentumInit ==
    /\ Idle("start")
    /\ data \in MomentumSeries
    /\ equity_curve = <<>>

\* run, lines 133-190, with MomentumBreakoutStrategy.check_exit_conditions
\* and Strategy.close_position.
MomentumExitStep ==
    /\ pc = "exit"
    /\ LET current_price == data[i].close
           days_held == i - position_entry_date
           trade_value == TradeValue(position_size, current_price)
           commission_cost == CommissionCost(position_size, current_price)
           leveraged_pnl == LeveragedPnl(position_type, position_entry_price,
                                         current_price, position_size,
                                         position_leverage)
           margin_used == MarginUsed(position_size, position_entry_price,
                                     position_leverage)
           pnl == ExitTradePnl(leveraged_pnl, commission_cost)
           close == Call("close_position", current_price, position_size,
                         position_type, 0, NoRet)
       IN  /\ portfolio_value' =
                  cash + (IF position_size # 0 THEN trade_value ELSE 0)
           /\ IF ShouldCheckExit(position_size, position_entry_date)
              THEN \E ema_10 \in Ema10s, atr \in Atrs :
                     LET exit == MomentumCheckExit(highest_price_since_entry,
                                     current_price, position_entry_price,
                                     days_held, ema_10, atr, position_type)
                         check == Call("check_exit_conditions", current_price,
                                       position_size, position_type, 0,
                                       IF exit.ret THEN 1 ELSE 0)
                                  @@ [entry_price |-> position_entry_price,
                                      ema_10 |-> ema_10, atr |-> atr,
                                      highest_price |-> exit.highest_price,
                                      stop_price |-> exit.stop_price]
                     IN  /\ highest_price_since_entry' =
                                exit.highest_price_since_entry
                         /\ IF exit.ret
                            THEN /\ cash' = ExitCash(cash, margin_used,
                                                     leveraged_pnl,
                                                     commission_cost)
                                 /\ trades' = Append(trades,
                                        Trade(i, current_price, pnl,
                                              margin_used, days_held))
                                 /\ n_close_position' = n_close_position + 1
                                 /\ calls' = <<check, close>>
                                 /\ positions' = NoEntry
                                 /\ position_size' = 0
                                 /\ position_entry_price' = 0
                                 /\ position_entry_date' = 0
                                 /\ position_type' = "NONE"
                                 /\ position_leverage' = 1
                            ELSE /\ calls' = <<check>>
                                 /\ UNCHANGED <<ledger, positions,
                                                n_close_position>>
              ELSE /\ calls' = <<>>
                   /\ UNCHANGED <<ledger, positions, n_close_position,
                                  highest_price_since_entry>>
    /\ pc' = "entry"
    /\ UNCHANGED <<engine, data, i, equity_curve, trailing_stops,
                   n_open_position, error, result, pair>>

\* run, lines 193-229, with Strategy.get_leverage (self.leverage, 1.0),
\* MomentumBreakoutStrategy.calculate_position_size and
\* Strategy.open_position.
MomentumEntryStep ==
    /\ pc = "entry"
    /\ LET current_price == data[i].close
           signal == data[i].signal
       IN  IF CanEnter(position_size, signal)
           THEN \E atr \in Atrs :
                  LET leverage == 1
                      size == MomentumPositionSize(current_price, atr)
                      trade_value == TradeValue(size, current_price)
                      margin_required == MarginRequired(trade_value, leverage)
                      commission_cost == CommissionCost(size, current_price)
                      side == EntrySide(signal)
                      lev == Call("get_leverage", current_price, 0, "NONE", 0,
                                  leverage)
                      siz == Call("calculate_position_size", current_price, 0,
                                  "NONE", portfolio_value, size)
                      open == Call("open_position", current_price, size, side,
                                   0, NoRet)
                  IN  IF SizeOk(size)
                         /\ EntryAccepted(cash, margin_required, commission_cost)
                      THEN /\ cash' = EntryCash(cash, margin_required,
                                                commission_cost)
                           /\ position_size' = size
                           /\ position_entry_price' = current_price
                           /\ position_entry_date' = i
                           /\ position_type' = side
                           /\ position_leverage' = EntryLeverage(leverage)
                           /\ n_open_position' = n_open_position + 1
                           /\ calls' = <<lev, siz, open>>
                           /\ positions' = [entry_price |-> current_price,
                                            size |-> size, entry_date |-> i,
                                            type |-> side]
                           /\ UNCHANGED trades
                      ELSE /\ calls' = <<lev, siz>>
                           /\ UNCHANGED <<ledger, positions, n_open_position>>
           ELSE /\ calls' = <<>>
                /\ UNCHANGED <<ledger, positions, n_open_position>>
    /\ pc' = "equity"
    /\ UNCHANGED <<engine, data, i, portfolio_value, equity_curve,
                   trailing_stops, n_close_position, error, result, pair,
                   highest_price_since_entry>>

MomentumNext ==
    \/ Start
    \/ MomentumExitStep
    \/ MomentumEntryStep
    \/ EquityStep
    \/ ForcedClose
    \/ Metrics

MomentumSpec == MomentumInit /\ [][MomentumNext]_vars

\* ===================================================================== claims
Last(seq) == seq[Len(seq)]

AllSignalsZero == \A k \in 1..Len(data) : data[k].signal = 0

\* C1: a completed run over a non-empty series whose signal is 0 on every bar
\* returns no trades, final_capital = initial_capital and an equity curve with
\* one sample per bar, each equal to initial_capital.
C1_ZeroSignalsLeaveCapital ==
    (pc = "done" /\ AllSignalsZero) =>
        /\ result.num_trades = 0
        /\ result.trades = <<>>
        /\ result.final_capital = initial_capital
        /\ Len(result.equity_curve) = Len(data)
        /\ \A k \in 1..Len(result.equity_curve) :
               result.equity_curve[k] = initial_capital

C1_Witness ==
    /\ pc = "done"
    /\ AllSignalsZero
    /\ Len(data) >= 2
    /\ result.final_capital = initial_capital

\* A completed run with exactly one entry, LONG at leverage 1, that the
\* strategy never exited and the forced close ended.
SingleLongHeldToEnd ==
    /\ pc = "done"
    /\ n_open_position = 1
    /\ n_close_position = 0
    /\ Len(result.trades) = 1
    /\ result.trades[1].type = "LONG"
    /\ result.trades[1].leverage = 1
    /\ result.trades[1].exit_price = data[Len(data)].close

\* The case initial 100000, P = 100, S = 10, c = 0.001, P' = 110.
C2_Example ==
    /\ SingleLongHeldToEnd
    /\ initial_capital = 100000 * MilliPerUnit
    /\ commission = 1
    /\ result.trades[1].entry_price = 100
    /\ result.trades[1].size = 10
    /\ result.trades[1].exit_price = 110

\* C2 as stated: the forced-close trade's pnl is (P' - P)*S - P'*S*c and final
\* capital is initial - P*S*c + pnl; in the example 98.9 and 100097.9.
C2_Original ==
    SingleLongHeldToEnd =>
        LET t == result.trades[1]
            pnl == (t.exit_price - t.entry_price) * t.size * MilliPerUnit
                     - t.exit_price * t.size * commission
        IN  /\ t.pnl = pnl
            /\ result.final_capital =
                   initial_capital - t.entry_price * t.size * commission + pnl
            /\ C2_Example => t.pnl = 98900 /\ result.final_capital = 100097900

\* C2 amended: the forced close charges no exit commission, so the trade's pnl
\* is (P' - P)*S and final capital is initial - P*S*c + pnl; in the example
\* 100 and 100099.
C2_ForcedCloseSingleLong ==
    SingleLongHeldToEnd =>
        LET t == result.trades[1]
            pnl == (t.exit_price - t.entry_price) * t.size * MilliPerUnit
        IN  /\ t.pnl = pnl
            /\ result.final_capital =
                   initial_capital - t.entry_price * t.size * commission + pnl
            /\ C2_Example => t.pnl = 100000 /\ result.final_capital = 100099000

C2_Witness == C2_Example /\ result.trades[1].pnl = 100000

\* C3: the forced close of a position left open after the last bar adds exactly
\* margin_used + leveraged P&L to cash (no exit commission) and records exactly
\* one trade, at the last bar's close, whose pnl is the leveraged P&L.
C3_ForcedCloseNoCommission ==
    [][(pc = "close" /\ position_size # 0) =>
        LET final_price == data[Len(data)].close
            delta == IF position_type = "LONG"
                     THEN final_price - position_entry_price
                     ELSE position_entry_price - final_price
            leveraged == delta * position_size * position_leverage * MilliPerUnit
            margin == (position_size * position_entry_price * MilliPerUnit)
                        \div position_leverage
        IN  /\ cash' = cash + margin + leveraged
            /\ Len(trades') = Len(trades) + 1
            /\ SubSeq(trades', 1, Len(trades)) = trades
            /\ Last(trades').pnl = leveraged
            /\ Last(trades').exit_price = final_price
            /\ Last(trades').entry_price = position_entry_price
            /\ Last(trades').size = position_size]_vars

C3_Witness ==
    /\ pc = "metrics"
    /\ position_size # 0
    /\ position_leverage > 1
    /\ Len(trades) >= 1
    /\ Last(trades).pnl < 0
    /\ Last(trades).exit_date = Len(data)

\* The calls named name among the calls of a step.
CallsOf(cs, name) == {k \in 1..Len(cs) : cs[k].name = name}

\* A step of run that performed a strategy-driven exit.
StrategyExit == pc = "exit" /\ Len(trades') = Len(trades) + 1

EntryEvaluated ==
    /\ pc = "entry"
    /\ position_size = 0
    /\ data[i].signal # 0
    /\ Len(calls') >= 2
    /\ calls'[2].name = "calculate_position_size"
    /\ calls'[2].ret # Raised

\* The cash an entry of the returned size at the returned leverage needs.
EntryNeeds ==
    LET size == calls'[2].ret
        leverage == calls'[1].ret
        price == data[i].close
    IN  (size * price * MilliPerUnit) \div leverage + size * price * commission

\* C5: with no position open, a non-zero signal and a returned size > 0, the
\* entry is accepted exactly when cash >= size*price/leverage +
\* size*price*commission; then cash falls by that sum, a position opens at the
\* bar's close, LONG if signal > 0 else SHORT, at the returned leverage, and
\* open_position is called.
C5_EntryAcceptance ==
    [][(EntryEvaluated /\ calls'[2].ret > 0) =>
        IF cash >= EntryNeeds
        THEN /\ cash' = cash - EntryNeeds
             /\ position_size' = calls'[2].ret
             /\ position_entry_price' = data[i].close
             /\ position_entry_date' = i
             /\ position_type' = IF data[i].signal > 0 THEN "LONG" ELSE "SHORT"
             /\ position_leverage' = calls'[1].ret
             /\ Cardinality(CallsOf(calls', "open_position")) = 1
             /\ n_open_position' = n_open_position + 1
        ELSE /\ position_size' = 0
             /\ CallsOf(calls', "open_position") = {}]_vars

C5_Witness ==
    /\ pc = "equity"
    /\ Len(calls) = 3
    /\ calls[3].name = "open_position"
    /\ position_type = "SHORT"
    /\ position_leverage = 10
    /\ position_size = 1000
    /\ position_entry_date = i

\* C6: a signalled entry is a no-op when the returned size is 0 or cash is
\* below margin plus commission: cash, position and trades are unchanged,
\* open_position is not called, nothing is raised, and the bar's equity sample
\* equals cash.
C6_SkippedEntryIsNoOp ==
    [][/\ (EntryEvaluated /\ (calls'[2].ret = 0 \/ cash < EntryNeeds)) =>
            /\ UNCHANGED ledger
            /\ UNCHANGED <<positions, n_open_position>>
            /\ CallsOf(calls', "open_position") = {}
            /\ pc' = "equity"
       /\ (pc = "equity" /\ Len(calls) = 2
              /\ calls[2].name = "calculate_position_size") =>
            /\ Len(equity_curve') = Len(equity_curve) + 1
            /\ Last(equity_curve') = cash]_vars

C6_Witness ==
    /\ pc = "exit"
    /\ i = 2
    /\ position_size = 0
    /\ trades = <<>>
    /\ n_open_position = 0
    /\ data[1].signal # 0
    /\ equity_curve = <<cash>>
    /\ cash = initial_capital

\* The bars whose loop body has completed.
BarsProcessed ==
    IF pc \in {"close", "metrics", "done"} THEN Len(data)
    ELSE IF i = 0 THEN 0 ELSE i - 1

\* C7: the equity curve has exactly one sample per bar processed, whatever
\* happened on the bar, and the forced close appends none.
C7_OneSamplePerBar ==
    /\ Len(equity_curve) = BarsProcessed
    /\ pc = "done" => Len(result.equity_curve) = Len(data)

C7_Witness ==
    /\ pc = "done"
    /\ Len(data) = 2
    /\ Len(result.equity_curve) = 2
    /\ n_close_position = 1
    /\ Len(result.trades) = 2

position == <<position_size, position_entry_price, position_entry_date,
              position_type, position_leverage>>

\* C8: at most one position is open, FLAT -> OPEN -> FLAT: a position is opened
\* only while flat, by the entry step, and an open position keeps its side,
\* entry price, entry date, size and leverage until the exit step closes it.
C8_SinglePosition ==
    [][/\ position_size # 0 =>
            \/ UNCHANGED position
            \/ pc = "exit" /\ position_size' = 0
       /\ (position_size = 0 /\ position_size' # 0) => pc = "entry"
       /\ n_open_position' - n_close_position' \in {0, 1}
       /\ n_open_position' # n_open_position => position_size = 0]_vars

C8_Witness ==
    /\ pc = "equity"
    /\ position_size # 0
    /\ position_entry_date < i
    /\ data[i].signal # 0
    /\ n_open_position = 1

\* C9: over a completed run close_position was called as often as
\* open_position, and as often as trades were recorded (the forced close
\* included).
C9_HooksPairUp ==
    pc = "done" =>
        /\ n_close_position = n_open_position
        /\ n_open_position = result.num_trades

\* C10: check_exit_conditions is called exactly once on every bar at whose
\* start a position is open and not at all on a bar that starts flat; each call
\* is for a position entered on an earlier bar, and no other step calls it.
C10_ExitCheckPerBar ==
    [][/\ pc = "exit" =>
            Cardinality(CallsOf(calls', "check_exit_conditions")) =
                IF position_size # 0 THEN 1 ELSE 0
       /\ pc # "exit" => CallsOf(calls', "check_exit_conditions") = {}
       /\ \A k \in CallsOf(calls', "check_exit_conditions") :
            /\ calls'[k].open
            /\ calls'[k].entry_date >= 1
            /\ calls'[k].entry_date < calls'[k].bar]_vars

C10_Witness ==
    /\ pc = "entry"
    /\ Len(calls) = 1
    /\ calls[1].name = "check_exit_conditions"
    /\ calls[1].ret = 0
    /\ position_size # 0
    /\ position_entry_date = i - 1
\* C11: a bar's equity sample is cash when no position is open after the bar's
\* exit and entry steps, and otherwise cash + size * entry price / leverage +
\* the unrealized leveraged P&L at the bar's close.
C11_EquitySample ==
    [][pc = "equity" =>
        LET close == data[i].close
            delta == IF position_type = "LONG"
                     THEN close - position_entry_price
                     ELSE position_entry_price - close
            margin == (position_size * position_entry_price * MilliPerUnit)
                        \div position_leverage
            unrealized == delta * position_size * position_leverage
                            * MilliPerUnit
        IN  /\ Len(equity_curve') = Len(equity_curve) + 1
            /\ Last(equity_curve') =
                   IF position_size = 0 THEN cash
                   ELSE cash + margin + unrealized]_vars

C11_Witness ==
    /\ pc = "close"
    /\ Len(data) = 2
    /\ position_size # 0
    /\ position_entry_date = 1
    /\ position_type = "SHORT"
    /\ position_leverage = 2
    /\ data[2].close > data[1].close
    /\ equity_curve[2] < equity_curve[1]

\* C12: run on an empty series raises ValueError before any tracking variable
\* is set and before any strategy method is called, and returns no result.
C12_EmptySeriesFailsFast ==
    data = <<>> =>
        /\ pc \in {"start", "raised"}
        /\ pc = "raised" => error = "ValueError"
        /\ calls = <<>>
        /\ cash = 0
        /\ trades = NoTrades
        /\ equity_curve = <<>>
        /\ n_open_position = 0
        /\ n_close_position = 0
        /\ positions = NoEntry
        /\ result = NoResult

C12_Witness ==
    /\ data = <<>>
    /\ pc = "raised"
    /\ error = "ValueError"
    /\ result = NoResult

StrategyMethods ==
    {"calculate_indicators", "generate_signals", "get_leverage",
     "calculate_position_size", "check_exit_conditions", "open_position",
     "close_position"}

\* C13: when a strategy method raises, run stops at that call: the error that
\* leaves run is that method's, the raising call is the last call made, no
\* equity sample is added and no bar is advanced, nothing runs afterwards (no
\* later bar, no retry) and no result is returned.
C13_StrategyErrorPropagates ==
    [][/\ pc # "raised"
       /\ error' # NoError => pc' = "raised" /\ result' = NoResult
       /\ \A k \in 1..Len(calls') :
            calls'[k].ret = Raised =>
                /\ k = Len(calls')
                /\ calls'[k].name \in StrategyMethods
                /\ error' = calls'[k].name
                /\ pc' = "raised"
                /\ equity_curve' = equity_curve
                /\ i' = i]_vars

C13_Witness ==
    /\ pc = "raised"
    /\ error = "close_position"
    /\ i = 2
    /\ Len(trades) = 1
    /\ Len(equity_curve) = 1
    /\ result = NoResult

\* C14: for every completed run max_drawdown <= 0 and max_drawdown_pct lies in
\* (-100, 0], leveraged positions that move against the run included.
C14_DrawdownBounds ==
    pc = "done" =>
        /\ result.max_drawdown <= 0
        /\ result.max_drawdown_pct.den > 0
        /\ result.max_drawdown_pct.num <= 0
        /\ result.max_drawdown_pct.num > -result.max_drawdown_pct.den

\* C15: win_rate is in [0, 1], equals count(pnl > 0) / num_trades, is 0 exactly
\* when no trade won (no trades at all included), and every trade is a winner
\* (pnl > 0) or a loser (pnl <= 0): winning_trades + losing_trades = num_trades.
C15_WinRate ==
    pc = "done" =>
        LET n == Len(result.trades)
            wins == Cardinality({k \in 1..n : result.trades[k].pnl > 0})
            r == result.win_rate
        IN  /\ result.num_trades = n
            /\ r.den > 0
            /\ 0 <= r.num /\ r.num <= r.den
            /\ r.num * (IF n > 0 THEN n ELSE 1) = wins * r.den
            /\ r.num = 0 <=> wins = 0
            /\ result.winning_trades = wins
            /\ result.winning_trades + result.losing_trades = result.num_trades

C15_Witness ==
    /\ pc = "done"
    /\ result.num_trades = 2
    /\ result.winning_trades = 1
    /\ result.trades[2].pnl = 0
    /\ result.win_rate = [num |-> 1, den |-> 2]

\* C17: for two positions equal in side, size, entry and exit price, the second
\* at twice the leverage of the first, the second's leveraged P&L is exactly
\* twice the first's, its margin exactly half, and the entry and exit
\* commissions (on size * price) are the same.
C17_DoubleLeverage ==
    pair.stage = "closed" =>
        /\ pair.second.leverage = 2 * pair.first.leverage
        /\ pair.second_close.leveraged_pnl = 2 * pair.first_close.leveraged_pnl
        /\ 2 * pair.second_close.margin_used = pair.first_close.margin_used
        /\ 2 * pair.second.margin_required = pair.first.margin_required
        /\ pair.second.entry_commission = pair.first.entry_commission
        /\ pair.second_close.exit_commission = pair.first_close.exit_commission
        /\ pair.first.entry_commission =
               pair.size * pair.entry_price * commission
        /\ pair.first_close.exit_commission =
               pair.size * pair.exit_price * commission

C17_Witness ==
    /\ pair.stage = "closed"
    /\ pair.type = "SHORT"
    /\ pair.leverage = 2
    /\ pair.exit_price > pair.entry_price
    /\ pair.first_close.leveraged_pnl < 0
    /\ pair.second_close.leveraged_pnl < pair.first_close.leveraged_pnl

\* C18: get_leverage is called only at entry time: on a bar where no position
\* is open and the signal is non-zero, as the first call of the entry step and
\* so before calculate_position_size, for the series up to that bar; never
\* while a position is open; and an open position's leverage is the value
\* returned on its entry bar.
C18_LeverageAtEntryOnly ==
    [][/\ \A k \in CallsOf(calls', "get_leverage") :
            /\ pc = "entry"
            /\ position_size = 0
            /\ data[i].signal # 0
            /\ k = 1
            /\ ~calls'[k].open
            /\ calls'[k].bar = i
       /\ \A k \in CallsOf(calls', "calculate_position_size") :
            /\ k = 2
            /\ calls'[1].name = "get_leverage"
            /\ calls'[1].ret # Raised
            /\ calls'[k].bar = calls'[1].bar
       /\ (position_size = 0 /\ position_size' # 0) =>
            /\ calls'[1].name = "get_leverage"
            /\ position_leverage' = calls'[1].ret
            /\ position_entry_date' = calls'[1].bar
       /\ (position_size # 0 /\ position_size' # 0) =>
            position_leverage' = position_leverage]_vars

C18_Witness ==
    /\ pc = "equity"
    /\ Len(calls) = 3
    /\ calls[1].name = "get_leverage"
    /\ calls[1].ret = 2
    /\ calls[2].name = "calculate_position_size"
    /\ position_size # 0
    /\ position_leverage = 2
    /\ i = 2
    /\ n_close_position = 1

\* C19: a trade record is appended only when a position closes (the exit step
\* or the forced close), one record per close, carrying the entry price, entry
\* date, size, side and leverage the position got at entry (the values the
\* open_position hook was given); over a completed run num_trades equals the
\* number of accepted entries.
C19_TradesOnlyAtClose ==
    [][/\ trades' # trades =>
            /\ pc \in {"exit", "close"}
            /\ position_size # 0
            /\ Len(trades') = Len(trades) + 1
            /\ SubSeq(trades', 1, Len(trades)) = trades
            /\ Last(trades').entry_price = position_entry_price
            /\ Last(trades').entry_date = position_entry_date
            /\ Last(trades').size = position_size
            /\ Last(trades').type = position_type
            /\ Last(trades').leverage = position_leverage
            /\ Last(trades').entry_price = positions.entry_price
            /\ Last(trades').entry_date = positions.entry_date
            /\ Last(trades').size = positions.size
            /\ Last(trades').type = positions.type
       /\ pc \in {"start", "entry", "equity", "metrics"} => trades' = trades
       /\ pc' = "done" =>
            /\ result'.num_trades = n_open_position
            /\ result'.trades = trades]_vars

C19_Witness ==
    /\ pc = "done"
    /\ result.num_trades = 2
    /\ n_open_position = 2
    /\ n_close_position = 1
    /\ result.trades[1].leverage = 10
    /\ result.trades[2].leverage = 2
    /\ result.trades[1].type # result.trades[2].type

\* C20: the strategy's positions entry and trailing-stop entry exist only while
\* a position is open: whenever the engine is flat between steps, and after the
\* forced close at series end, the strategy holds neither entry.
C20_StrategyStateRemoved ==
    /\ (pc \in {"exit", "entry", "equity", "close"} /\ position_size = 0) =>
            (positions = NoEntry /\ trailing_stops = NoEntry)
    /\ pc \in {"metrics", "done"} =>
            (positions = NoEntry /\ trailing_stops = NoEntry)

\* C21: sharpe_ratio is 0 whenever the equity curve has fewer than 3 samples
\* (fewer than 2 return observations) or all return observations are equal
\* (zero standard deviation, e.g. a constant curve); it is never an infinity
\* or NaN.
C21_SharpeZero ==
    pc \in {"done", "sharpe_done"} =>
        LET curve == result.equity_curve
            returns == Returns(curve)
        IN  /\ Len(curve) < 3 => result.sharpe_ratio = "0.0"
            /\ Len(returns) < 2 => result.sharpe_ratio = "0.0"
            /\ (\A k \in 2..Len(curve) : curve[k] = curve[1]) =>
                   result.sharpe_ratio = "0.0"
            /\ (\A j, k \in 2..Len(curve) :
                   /\ curve[j - 1] # 0
                   /\ PctChange(curve, j) = PctChange(curve, k)) =>
                   result.sharpe_ratio = "0.0"
            /\ result.sharpe_ratio \in {"0.0", "ratio"}

C21_Witness ==
    /\ pc = "sharpe_done"
    /\ result.equity_curve = <<100000000, 110000000, 121000000>>
    /\ Len(result.returns) = 2
    /\ result.returns[1] = [kind |-> "finite", num |-> 1, den |-> 10]
    /\ result.sharpe_ratio = "0.0"

\* C22: whenever the engine calls calculate_position_size, its portfolio_value
\* argument is the engine's cash at that moment (no position is open then),
\* also on a bar on which a position was exited before the entry is
\* evaluated.
C22_SizingSeesCurrentCash ==
    [][\A k \in CallsOf(calls', "calculate_position_size") :
          /\ pc = "entry"
          /\ position_size = 0
          /\ calls'[k].pv = cash]_vars

\* C26: the final_capital of a completed run equals the last equity-curve
\* sample, whether the run ends flat, with a force-closed position, or with
\* an exit and a new entry on the last bar.
C26_FinalCapitalIsLastSample ==
    pc = "done" =>
        /\ Len(result.equity_curve) = Len(data)
        /\ result.final_capital = Last(result.equity_curve)

C26_Witness ==
    /\ pc = "done"
    /\ Len(data) = 2
    /\ result.num_trades = 2
    /\ n_close_position = 1
    /\ result.trades[1].exit_date = 2
    /\ result.trades[2].entry_date = 2
    /\ result.trades[2].leverage = 10
    /\ result.final_capital = Last(result.equity_curve)
    /\ result.final_capital # result.equity_curve[1]

RECURSIVE SumPnl(_)
SumPnl(ts) == IF ts = <<>> THEN 0 ELSE ts[1].pnl + SumPnl(Tail(ts))

RECURSIVE SumEntryCommission(_)
SumEntryCommission(ts) ==
    IF ts = <<>> THEN 0
    ELSE CommissionCost(ts[1].size, ts[1].entry_price)
           + SumEntryCommission(Tail(ts))

C29_ExplicitArgumentsUsed ==
    pc \in {"start", "exit", "entry", "equity", "close", "metrics", "done"} =>
        /\ initial_capital =
               IF initial_capital_arg = <<>>
               THEN DEFAULT_INITIAL_CAPITAL * MilliPerUnit
               ELSE initial_capital_arg[1] * MilliPerUnit
        /\ commission =
               IF commission_arg = <<>> THEN DEFAULT_COMMISSION
               ELSE commission_arg[1]
        /\ pc = "done" => result.initial_capital = initial_capital

\* C30: margin is the only capital at risk: with positive initial capital,
\* leverage >= 1 and positive prices, cash is never negative (after an
\* accepted entry, after a strategy exit, after the forced close), and a
\* close never takes more from cash than it leaves.
C30_CashNeverNegative ==
    /\ cash >= 0
    /\ pc = "done" => result.final_capital >= 0

\* C23: at the BankerRatchet exit check at which the position's profit first
\* reaches 2%, the stop used for that check's stop-hit test is the entry price
\* (breakeven); the stop trails 1% behind the peak or above the trough only on
\* later checks.
C23_BreakevenAtActivation ==
    \A k \in CallsOf(calls, "check_exit_conditions") :
        calls[k].activated_now =>
            calls[k].stop_info.stop_price = calls[k].entry_price * PriceScale

\* C24: a BankerRatchet position sized by calculate_position_size and opened
\* by the engine with the strategy's leverage loses, before commission, at
\* most 2% of the portfolio value at entry when it is closed exactly at its
\* initial 2% stop price.  Stated for the first position of a run, whose
\* portfolio value at entry is the initial capital.
C24_StopLossRisksTwoPercent ==
    (trades # <<>> /\ pc \in {"entry", "equity", "exit", "close", "metrics", "done"}) =>
        LET t == trades[1]
            initial_stop == IF t.type = "LONG"
                            THEN t.entry_price * (PriceScale - initial_stop_pct)
                            ELSE t.entry_price * (PriceScale + initial_stop_pct)
            loss == -LeveragedPnl(t.type, t.entry_price, t.exit_price, t.size,
                                  t.leverage)
        IN  t.exit_price * PriceScale = initial_stop =>
                loss * 100 <= initial_capital * 2

\* C28: over consecutive BankerRatchet exit checks of one open position the
\* stop price never decreases for a LONG and never increases for a SHORT
\* (the first check measured against the initial 2% stop), and an activated
\* stop stays activated; the entry goes away only with close_position.
C28_StopOnlyRatchets ==
    [][/\ trailing_stops' # NoEntry =>
            LET before == IF trailing_stops = NoEntry
                          THEN InitTrailingStop(position_entry_price,
                                                initial_stop_pct, position_type)
                          ELSE trailing_stops
            IN  /\ pc = "exit" => CallsOf(calls', "check_exit_conditions") = {1}
                /\ position_type = "LONG" =>
                       trailing_stops'.stop_price >= before.stop_price
                /\ position_type = "SHORT" =>
                       trailing_stops'.stop_price <= before.stop_price
                /\ before.activated => trailing_stops'.activated
       /\ (trailing_stops # NoEntry /\ trailing_stops' = NoEntry) =>
            CallsOf(calls', "close_position") # {}]_vars

C28_Witness ==
    /\ pc = "entry"
    /\ i = 3
    /\ position_type = "SHORT"
    /\ position_entry_price = 105
    /\ trailing_stops # NoEntry
    /\ trailing_stops.activated
    /\ trailing_stops.lowest_price = 100
    /\ trailing_stops.stop_price = 100 * (PriceScale + trailing_distance_pct)
    /\ data[2].close = 102
    /\ data[3].close = 100

\* C25: once a LONG MomentumBreakout position has shown a profit of at least
\* 5% at an exit check (its highest price since entry is 5% or more above the
\* entry price), every later exit check at which the current price is below
\* the entry price returns True.
C25_BreakevenStopHolds ==
    \A k \in CallsOf(calls, "check_exit_conditions") :
        (/\ calls[k].type = "LONG"
         /\ calls[k].highest_price * 100 >= 105 * calls[k].entry_price
         /\ calls[k].price < calls[k].entry_price) =>
            calls[k].ret = 1

====
